---- MODULE Spec2Model ----
(***************************************************************************)
(* The routing wrapper of or-tools-rs: RoutingModel, its registry of       *)
(* transit callbacks, the Assignment values a solve hands out, and the     *)
(* calls the wrapper forwards to the linked routing engine.                *)
(*                                                                         *)
(* The engine (operations_research::RoutingModel) is linked, not part of   *)
(* the repository.  The model keeps of it only what the wrapper hands it   *)
(* and what the wrapper's own documentation states about a call; whatever  *)
(* the repository does not determine is a nondeterministic choice.         *)
(***************************************************************************)
EXTENDS Integers, Sequences, FiniteSets, TLC

(***************************************************************************)
(* Bounds of the model.                                                    *)
(***************************************************************************)
MaxFns == 2
MaxCallbacks == 2
MaxCalls == 3
NumIndices == 2
NumVehicles == 2
NumNodes == 3

(***************************************************************************)
(* 64-bit values are pairs <<high word, low word>> of 32-bit words, so     *)
(* that a conversion through a 32-bit type is visible.                     *)
(***************************************************************************)
Hi(v) == v[1]
Lo(v) == v[2]
I64(n) == <<0, n>>

\* An argument or result passed as int64_t / i64: both words are kept.
AsInt64(v) == <<Hi(v), Lo(v)>>

\* a <= b for non-negative 64-bit values.
LeqI64(a, b) == Hi(a) < Hi(b) \/ (Hi(a) = Hi(b) /\ Lo(a) <= Lo(b))

\* The Variable Indices the engine works with.
Indices == {I64(i) : i \in 0..(NumIndices - 1)}

\* The functions an application supplies, Fn(i64, i64) -> i64: its k-th
\* function object computes FnOf(k).
FnOf(k) == IF k % 2 = 1 THEN "sum" ELSE "scaled"

\* What the application's function computes: "sum" is from + to, "scaled"
\* is (from + 1) * 2^32 + to (a cost above the 32-bit range, and not
\* symmetric in its arguments).
Apply(fn, from, to) ==
    IF fn = "sum" THEN <<Hi(from) + Hi(to), Lo(from) + Lo(to)>>
    ELSE <<Lo(from) + 1, Lo(to)>>

\* What a read through a dangling reference may yield.
Garbage == {I64(0), I64(7)}

\* Dimension names as byte strings: "D" and "D\0T".
DimNames == {<<68>>, <<68, 0, 84>>}

\* std::string(name_ptr, name_len): exactly name_len bytes from name_ptr.
StdString(name_ptr, name_len) == SubSeq(name_ptr, 1, name_len)

VARIABLES
    callerFns,          \* the application's function objects: [fn, alive]
    transit_callbacks,  \* RoutingModel.transit_callbacks: Vec<Closure2>
    inner,              \* RoutingModel.inner: the engine's model
    modelAlive,         \* the RoutingModel has not been dropped
    assignments,        \* the Assignment values the caller holds
    pc,                 \* "caller", or "solving" inside solve_with_parameters
    solves,             \* number of solve_with_parameters calls made so far
    calls,              \* number of calls made on the model so far
    lastCall,           \* the callback invocation of the search in progress
    ret,                \* the last API call and what it returned
    first_wiring,       \* the engine's model as the first solve found it
    max_flow,           \* a MaxFlow over the graph and its output
    min_cost_flow,      \* a MinCostFlow over the graph and its output
    index_manager,      \* the RoutingIndexManager the model was built from
    query               \* the last accessor call and what it returned

routingVars == <<callerFns, transit_callbacks, inner, modelAlive, assignments,
                 pc, solves, calls, lastCall, ret, first_wiring,
                 index_manager, query>>

graphVars == <<max_flow, min_cost_flow>>

vars == <<callerFns, transit_callbacks, inner, modelAlive, assignments, pc,
          solves, calls, lastCall, ret, first_wiring, max_flow,
          min_cost_flow, index_manager, query>>

NoCall == [made |-> FALSE, handle |-> -1, from |-> I64(0), to |-> I64(0),
           result |-> I64(0), live |-> TRUE]
NoRet == [op |-> "none", handle |-> -1, ok |-> TRUE, name |-> <<>>]

\* The record of a call: its name, the handle or flag it returned and the
\* dimension name it was given.
Ret(op, handle, ok, name) ==
    [op |-> op, handle |-> handle, ok |-> ok, name |-> name]

\* The vehicles of the model: 0 .. num_vehicles - 1.
Vehicles == 0..(NumVehicles - 1)

(***************************************************************************)
(* RoutingIndexManager (constraint_solver/routing_index_manager.rs).  A    *)
(* manager is the record of what the engine built from num_nodes,          *)
(* num_vehicles and the plan: index_to_node[i + 1] is the node of variable *)
(* index i, vehicle_to_start[v + 1] and vehicle_to_end[v + 1] are the      *)
(* start and end index of vehicle v.                                       *)
(***************************************************************************)
\* The RoutingNodeIndex values of a problem of num_nodes nodes.
NodeIndices(num_nodes) == 0..(num_nodes - 1)

\* RoutingIndexManagerVehiclePlan::Depot(depot): every vehicle starts and
\* ends at the depot.
Depot(depot) == [starts |-> [v \in 1..NumVehicles |-> depot],
                 ends |-> [v \in 1..NumVehicles |-> depot]]

\* RoutingIndexManagerVehiclePlan::Pair(starts_ends): vehicle v starts at
\* starts_ends[v].0 and ends at starts_ends[v].1.
Pair(starts_ends) ==
    [starts |-> [v \in 1..NumVehicles |-> starts_ends[v][1]],
     ends |-> [v \in 1..NumVehicles |-> starts_ends[v][2]]]

\* The plans the model is built with: each depot; every vehicle from node 0
\* to the last node; vehicle v from node v to the node after it.
Plans ==
    {Depot(d) : d \in NodeIndices(NumNodes)}
        \cup {Pair([v \in 1..NumVehicles |-> <<0, NumNodes - 1>>]),
              Pair([v \in 1..NumVehicles |->
                        <<(v - 1) % NumNodes, v % NumNodes>>])}

\* The nodes of a set, in increasing order.
RECURSIVE NodesInOrder(_)
NodesInOrder(S) ==
    IF S = {} THEN <<>>
    ELSE LET n == CHOOSE m \in S : \A k \in S : m <= k
         IN  <<n>> \o NodesInOrder(S \ {n})

\* The nodes of the problem that no vehicle starts or ends at.
NonStartOrEndNodes(num_nodes, plan) ==
    {n \in NodeIndices(num_nodes) :
        \A v \in 1..NumVehicles : plan.starts[v] # n /\ plan.ends[v] # n}

\* "The mapping between node indices and variables indices is subject to
\* change": the engine may lay the indices out in either of these orders.
Layouts == {"nodes_first", "vehicles_first"}

\* A layout that gives the vehicles sharing a start node one index for it.
IndexLayout_shared(num_nodes, plan, layout) ==
    LET others == NodesInOrder(NonStartOrEndNodes(num_nodes, plan))
        starts == NodesInOrder({plan.starts[v] : v \in 1..NumVehicles})
        first(node) == CHOOSE i \in 1..Len(starts) : starts[i] = node
    IN  [index_to_node |-> others \o starts \o plan.ends,
         vehicle_to_start |->
             [v \in 1..NumVehicles |->
                 Len(others) + first(plan.starts[v]) - 1],
         vehicle_to_end |->
             [v \in 1..NumVehicles |-> Len(others) + Len(starts) + v - 1]]

\* "indices range between 0 and n-1, where n = number of vehicles * 2 (for
\* start and end nodes) + number of non-start or end nodes": every vehicle
\* has a start index and an end index of its own, and every other node has
\* one index.
IndexLayout(num_nodes, plan, layout) ==
    LET others == NodesInOrder(NonStartOrEndNodes(num_nodes, plan))
        K == Len(others)
        V == NumVehicles
    IN  IF layout = "nodes_first"
        THEN [index_to_node |-> others \o plan.starts \o plan.ends,
              vehicle_to_start |-> [v \in 1..V |-> K + v - 1],
              vehicle_to_end |-> [v \in 1..V |-> K + V + v - 1]]
        ELSE [index_to_node |-> plan.starts \o plan.ends \o others,
              vehicle_to_start |-> [v \in 1..V |-> v - 1],
              vehicle_to_end |-> [v \in 1..V |-> V + v - 1]]

\* RoutingIndexManager::new(num_nodes, num_vehicles, plan)
RoutingIndexManagerNew(num_nodes, num_vehicles, plan, layout) ==
    LET built == IndexLayout(num_nodes, plan, layout)
    IN  [num_nodes |-> num_nodes,
         num_vehicles |-> num_vehicles,
         plan |-> plan,
         index_to_node |-> built.index_to_node,
         vehicle_to_start |-> built.vehicle_to_start,
         vehicle_to_end |-> built.vehicle_to_end]

\* The managers a model may be built from.
Managers == {RoutingIndexManagerNew(NumNodes, NumVehicles, plan, layout) :
                plan \in Plans, layout \in Layouts}

\* The manager of the repository's examples: one depot, node 0.
DepotManager ==
    RoutingIndexManagerNew(NumNodes, NumVehicles, Depot(0), "nodes_first")

\* self->num_nodes()
num_nodes(manager) == manager.num_nodes

\* self->num_vehicles()
num_vehicles(manager) == manager.num_vehicles

\* self->num_indices(): "the number of indices mapped to nodes"
num_indices(manager) == Len(manager.index_to_node)

\* The variable indices of a manager: 0 .. num_indices - 1, as i64.
ManagerIndices(manager) == {I64(i) : i \in 0..(num_indices(manager) - 1)}

\* self->GetStartIndex(vehicle)
GetStartIndex(manager, vehicle) == I64(manager.vehicle_to_start[vehicle + 1])

\* self->GetEndIndex(vehicle)
GetEndIndex(manager, vehicle) == I64(manager.vehicle_to_end[vehicle + 1])

\* self->IndexToNode(index)
IndexToNode(manager, index) == manager.index_to_node[Lo(index) + 1]

\* An engine model that takes the end indices of the manager for its start
\* indices and the start indices for its end indices.
RoutingModelNew_swapped(manager) ==
    [evaluators |-> <<>>,
     dimensions |-> <<>>,
     pickup_delivery_pairs |-> {},
     cost_evaluator |-> -1,
     manager |-> [manager EXCEPT !.vehicle_to_start = manager.vehicle_to_end,
                                 !.vehicle_to_end = manager.vehicle_to_start]]

\* new operations_research::RoutingModel(*index_manager): a fresh engine
\* model over the indices of the manager.
RoutingModelNew(manager) ==
    [evaluators |-> <<>>,
     dimensions |-> <<>>,
     pickup_delivery_pairs |-> {},
     cost_evaluator |-> -1,
     manager |-> manager]

\* RoutingModel::new(&manager) with the manager of the examples: a fresh
\* engine model and an empty callback vector.
NewInner == RoutingModelNew(DepotManager)

\* No accessor has been called since the model last changed.
NoQuery == [op |-> "none", args |-> <<>>, result |-> <<>>]

\* The record of an accessor call: its name, its arguments and what it
\* returned.  A call that changes the model clears it.
Query(op, args, result) == [op |-> op, args |-> args, result |-> result]

\* No solve_with_parameters call has been made yet.
NoWiring == [set |-> FALSE, inner |-> NewInner, transit_callbacks |-> <<>>]

(***************************************************************************)
(* The graph of the flow solvers: the arcs, in the order add_arc created   *)
(* them, as <<tail, head>>, with the capacity and unit cost of each.       *)
(***************************************************************************)
Arcs == << <<0, 1>>, <<0, 2>>, <<0, 3>>, <<1, 2>>, <<1, 4>>, <<2, 3>>,
           <<2, 4>>, <<3, 2>>, <<3, 4>> >>

ArcIndices == 1..Len(Arcs)

Nodes == {Arcs[a][1] : a \in ArcIndices} \cup {Arcs[a][2] : a \in ArcIndices}

ArcCapacity == <<20, 30, 10, 40, 30, 10, 20, 5, 20>>

Source == 0

Target == 4

\* The value of an arc quantity no call has set.
Unset == -1

\* MaxFlow::new(&graph, source, target): no capacity set, nothing solved.
NewMaxFlow ==
    [capacity |-> [a \in ArcIndices |-> Unset],
     requested |-> [a \in ArcIndices |-> Unset],
     flow |-> [a \in ArcIndices |-> Unset],
     optimal_flow |-> 0,
     status |-> "NotSolved",
     output |-> FALSE,
     ret |-> Unset,
     status_read |-> "none"]

\* MinCostFlow::new(&graph): no unit cost set, nothing solved.
NewMinCostFlow ==
    [unit_cost |-> [a \in ArcIndices |-> Unset],
     requested |-> [a \in ArcIndices |-> Unset],
     capacity |-> [a \in ArcIndices |-> Unset],
     supply |-> [n \in Nodes |-> 0],
     status |-> "NotSolved",
     output |-> FALSE,
     ret |-> <<>>,
     status_read |-> "none"]

Init ==
    /\ first_wiring = NoWiring
    /\ max_flow = NewMaxFlow
    /\ min_cost_flow = NewMinCostFlow
    /\ callerFns = [k \in 1..MaxFns |-> [fn |-> FnOf(k), alive |-> TRUE]]
    /\ transit_callbacks = <<>>
    /\ inner = NewInner
    /\ modelAlive = TRUE
    /\ assignments = {}
    /\ pc = "caller"
    /\ solves = 0
    /\ calls = 0
    /\ lastCall = NoCall
    /\ ret = NoRet
    /\ index_manager = DepotManager
    /\ query = NoQuery

\* The state after RoutingIndexManager::new and RoutingModel::new, for each
\* of the managers.
InitManagers ==
    /\ first_wiring = NoWiring
    /\ max_flow = NewMaxFlow
    /\ min_cost_flow = NewMinCostFlow
    /\ callerFns = [k \in 1..MaxFns |-> [fn |-> FnOf(k), alive |-> TRUE]]
    /\ transit_callbacks = <<>>
    /\ index_manager \in Managers
    /\ inner = RoutingModelNew(index_manager)
    /\ modelAlive = TRUE
    /\ assignments = {}
    /\ pc = "caller"
    /\ solves = 0
    /\ calls = 0
    /\ lastCall = NoCall
    /\ ret = NoRet
    /\ query = NoQuery

\* The caller runs (it is blocked while a solve is in progress) and the
\* model exists.
CallerRuns == pc = "caller" /\ modelAlive

\* A method taking &mut self: no Assignment (which borrows the model) is held.
MutBorrow == CallerRuns /\ assignments = {}

\* A method taking &self.
SharedBorrow == CallerRuns

(***************************************************************************)
(* The application's side.                                                 *)
(***************************************************************************)
\* A registered function object goes out of scope.  Nothing borrows it once
\* the register_transit_callback call that took `&'a F` has returned.  (An
\* object dropped before it is registered can never be passed to the call.)
DropCallback(o) ==
    /\ CallerRuns
    /\ o \in 1..Len(callerFns)
    /\ callerFns[o].alive
    /\ \E i \in 1..Len(transit_callbacks) : transit_callbacks[i].userdata = o
    /\ callerFns' = [callerFns EXCEPT ![o].alive = FALSE]
    /\ UNCHANGED <<transit_callbacks, inner, modelAlive, assignments, pc,
                   solves, calls, lastCall, ret>>
    /\ UNCHANGED <<first_wiring, max_flow, min_cost_flow, index_manager,
                   query>>

(***************************************************************************)
(* register_transit_callback                                               *)
(***************************************************************************)
\* The handles the engine may hand out (c_int, non-negative).
Handles == 0..(MaxCallbacks - 1)

\* The address libffi allocates for a new closure's code: one that no
\* closure of the vector occupies.
FreshCodePtr(vec) ==
    CHOOSE a \in 1..(Len(vec) + 1) :
        /\ \A i \in 1..Len(vec) : vec[i].code_ptr # a
        /\ \A b \in 1..(a - 1) : \E i \in 1..Len(vec) : vec[i].code_ptr = b

\* Closure2::new(callback): the closure keeps the reference `callback` as
\* its user data; the function object itself stays where the caller put it.
\* The transmute only renames the lifetime 'a to 'manager.
Closure2New(vec, callback) ==
    [code_ptr |-> FreshCodePtr(vec), userdata |-> callback]

\* self.transit_callbacks.push(closure)
VecPush_dropped(vec, closure) == vec

\* A push whose reallocation takes the code of the stored closures with it:
\* every closure already in the vector gets a new code address.
VecPush_relocating(vec, closure) ==
    Append([i \in 1..Len(vec) |->
               [vec[i] EXCEPT !.code_ptr = @ + Len(vec) + 1]],
           closure)

VecPush(vec, closure) == Append(vec, closure)

\* inner->RegisterTransitCallback(callback): the engine keeps the code
\* address under the handle it returns.
RegisterTransitCallback(in, h, f_ptr) ==
    [in EXCEPT !.evaluators =
        [k \in (DOMAIN in.evaluators) \cup {h} |->
            IF k = h THEN f_ptr ELSE in.evaluators[k]]]

register_transit_callback(callback) ==
    /\ MutBorrow
    /\ calls < MaxCalls
    /\ callback \in 1..Len(callerFns)
    /\ callerFns[callback].alive
    /\ Len(transit_callbacks) < MaxCallbacks
    /\ LET closure == Closure2New(transit_callbacks, callback)
           f_ptr == closure.code_ptr
       IN /\ transit_callbacks' = VecPush(transit_callbacks, closure)
          /\ \E h \in Handles \ DOMAIN inner.evaluators :
                /\ inner' = RegisterTransitCallback(inner, h, f_ptr)
                /\ ret' = Ret("register_transit_callback", h, TRUE, <<>>)
    /\ calls' = calls + 1
    /\ UNCHANGED <<callerFns, modelAlive, assignments, pc, solves, lastCall>>
    /\ query' = NoQuery
    /\ UNCHANGED <<first_wiring, max_flow, min_cost_flow, index_manager>>

\* What RegisterTransitCallback can return once every handle is in use
\* (Handles stands for the non-negative values of c_int): a negative int,
\* or a handle it has handed out before.
ExhaustedHandles(in) == {-1} \cup DOMAIN in.evaluators

\* register_transit_callback on a model whose engine has no handle left.
\* The closure is built and pushed before the engine is asked, and the
\* int the engine returns is the c_int result: the signature has no value
\* that stands for a failure.
register_transit_callback_exhausted(callback) ==
    /\ MutBorrow
    /\ calls < MaxCalls
    /\ callback \in 1..Len(callerFns)
    /\ callerFns[callback].alive
    /\ Handles \ DOMAIN inner.evaluators = {}
    /\ LET closure == Closure2New(transit_callbacks, callback)
       IN /\ transit_callbacks' = VecPush(transit_callbacks, closure)
          /\ \E h \in ExhaustedHandles(inner) :
                ret' = Ret("register_transit_callback", h, TRUE, <<>>)
    /\ calls' = calls + 1
    /\ UNCHANGED <<callerFns, inner, modelAlive, assignments, pc, solves,
                   lastCall>>
    /\ query' = NoQuery
    /\ UNCHANGED <<first_wiring, max_flow, min_cost_flow, index_manager>>

(***************************************************************************)
(* The engine calling back into the application.                           *)
(***************************************************************************)
\* The closures whose code lives at f_ptr (one, while the vector keeps it).
ClosuresAt(vec, f_ptr) ==
    {c \in {vec[i] : i \in 1..Len(vec)} : c.code_ptr = f_ptr}

\* libffi's trampoline calls the function object the closure's user data
\* refers to, passing both i64 arguments and returning its i64 result.  If
\* that object is gone the call reads freed memory.
TransitCallback(target, from_index, to_index) ==
    IF target.alive
    THEN {AsInt64(Apply(target.fn, AsInt64(from_index), AsInt64(to_index)))}
    ELSE Garbage

\* The C++ lambda registered with the engine: f(from_index, to_index)
\* through the code address f_ptr.  `live` tells whether the call reached a
\* closure that is still stored and a function object that still exists.
CallThrough(vec, fns, f_ptr, from_index, to_index) ==
    IF ClosuresAt(vec, f_ptr) = {}
    THEN [results |-> Garbage, live |-> FALSE]
    ELSE LET closure == CHOOSE c \in ClosuresAt(vec, f_ptr) : TRUE
             target == fns[closure.userdata]
         IN [results |-> TransitCallback(target, from_index, to_index),
             live |-> target.alive]

\* One invocation of handle h by the engine.
Invoke(h, from_index, to_index) ==
    /\ h \in DOMAIN inner.evaluators
    /\ LET c == CallThrough(transit_callbacks, callerFns, inner.evaluators[h],
                            AsInt64(from_index), AsInt64(to_index))
       IN \E r \in c.results :
            lastCall' = [made |-> TRUE, handle |-> h, from |-> from_index,
                         to |-> to_index, result |-> r, live |-> c.live]

(***************************************************************************)
(* solve_with_parameters and the Assignment it returns.                    *)
(***************************************************************************)
\* The call enters the engine's search.
SolveBegin ==
    /\ SharedBorrow
    /\ calls < MaxCalls
    /\ pc' = "solving"
    /\ solves' = solves + 1
    /\ calls' = calls + 1
    /\ ret' = Ret("solve_with_parameters", -1, TRUE, <<>>)
    /\ UNCHANGED <<callerFns, transit_callbacks, inner, modelAlive,
                   assignments, lastCall>>
    /\ first_wiring' = IF first_wiring.set THEN first_wiring
                       ELSE [set |-> TRUE, inner |-> inner,
                             transit_callbacks |-> transit_callbacks]
    /\ UNCHANGED <<graphVars, index_manager, query>>

\* During the search the engine invokes registered callbacks, in an order
\* and number of its own choosing.
InvokeTransitCallback(h, from_index, to_index) ==
    /\ pc = "solving"
    /\ Invoke(h, from_index, to_index)
    /\ UNCHANGED <<callerFns, transit_callbacks, inner, modelAlive,
                   assignments, pc, solves, calls, ret>>
    /\ UNCHANGED <<first_wiring, max_flow, min_cost_flow, index_manager,
                   query>>

\* The cumul values a solution can give the start of each vehicle's route
\* in one dimension: "Setting the value of fix_start_cumul_to_zero to true
\* will force the 'cumul' variable of the start node of all vehicles to be
\* equal to 0"; otherwise the engine chooses them, below the capacity:
\* "'capacity' is the upper bound of the cumul variables".
StartCumuls(dimension) ==
    IF dimension.fix_start_cumul_to_zero
    THEN {[v \in Vehicles |-> I64(0)]}
    ELSE {sc \in {[v \in Vehicles |-> I64(0)],
                  [v \in Vehicles |-> I64(5 + v)]} :
             \A v \in Vehicles : LeqI64(sc[v], dimension.capacity)}

\* The values a solution can give the slack variables of one dimension:
\* "'slack_max' is the upper bound of the slack variable", and slack "is a
\* positive slack variable".
Slacks(dimension) ==
    {sl \in {I64(0), I64(30)} : LeqI64(sl, dimension.slack_max)}

\* The slack a solution has in each dimension of the model.
SolutionSlacks(in) ==
    {sl \in [DOMAIN in.dimensions -> {I64(0), I64(30)}] :
        \A n \in DOMAIN in.dimensions : sl[n] \in Slacks(in.dimensions[n])}

\* Solutions with the recorded pickup and delivery pairs taken as
\* constraints that the sample solutions do not meet.
Solutions_paired(in) ==
    {sc \in [DOMAIN in.dimensions ->
                UNION {StartCumuls(in.dimensions[n]) :
                          n \in DOMAIN in.dimensions}] :
        /\ in.pickup_delivery_pairs = {}
        /\ \A n \in DOMAIN in.dimensions :
              sc[n] \in StartCumuls(in.dimensions[n])}

\* The solutions the engine can find for a model: start cumuls for each of
\* its dimensions.
Solutions(in) ==
    {sc \in [DOMAIN in.dimensions ->
                UNION {StartCumuls(in.dimensions[n]) :
                          n \in DOMAIN in.dimensions}] :
        \A n \in DOMAIN in.dimensions : sc[n] \in StartCumuls(in.dimensions[n])}

\* inner->SolveWithParameters(*search_parameters) "returns a solution if
\* any (owned by routing)": a pointer to a solution, or nullptr.
SolveWithParameters(in) ==
    {[inner |-> "nullptr", start_cumul |-> <<>>, slack |-> <<>>]}
        \cup {[inner |-> "solution", start_cumul |-> sc, slack |-> sl] :
                  sc \in Solutions(in), sl \in SolutionSlacks(in)}

\* The search ends as SolveEnd does, and the engine forgets the cost
\* evaluator it was given.
SolveEnd_rewires ==
    /\ pc = "solving"
    /\ \E found \in SolveWithParameters(inner) :
          assignments' = assignments \cup
              {[solve |-> solves, modified |-> FALSE, inner |-> found.inner,
                start_cumul |-> found.start_cumul, slack |-> found.slack]}
    /\ inner' = [inner EXCEPT !.cost_evaluator = -1]
    /\ pc' = "caller"
    /\ lastCall' = NoCall
    /\ UNCHANGED <<callerFns, transit_callbacks, modelAlive, solves, calls,
                   ret>>
    /\ UNCHANGED <<first_wiring, max_flow, min_cost_flow, index_manager,
                   query>>

\* The search ends: the pointer SolveWithParameters returned is wrapped as
\* `&Assignment`, whatever it is, with a shared borrow of the model.
SolveEnd ==
    /\ pc = "solving"
    /\ \E found \in SolveWithParameters(inner) :
          assignments' = assignments \cup
              {[solve |-> solves, modified |-> FALSE, inner |-> found.inner,
                start_cumul |-> found.start_cumul, slack |-> found.slack]}
    /\ pc' = "caller"
    /\ lastCall' = NoCall
    /\ UNCHANGED <<callerFns, transit_callbacks, inner, modelAlive, solves,
                   calls, ret>>
    /\ UNCHANGED <<first_wiring, max_flow, min_cost_flow, index_manager,
                   query>>

\* The methods of Assignment, and whether each reads through the pointer
\* the Assignment wraps: assignment->Value(var), model->Next(*assignment,
\* index), model->IsVehicleUsed(*assignment, vehicle).
AssignmentMethods == {"value", "next", "is_vehicle_used"}

Dereferences(method) == method \in {"value", "next", "is_vehicle_used"}

\* A read through an Assignment the caller holds: value, next and
\* is_vehicle_used take &self of the Assignment and change nothing.
Read(a) ==
    /\ CallerRuns
    /\ a \in assignments
    /\ UNCHANGED vars

value(a) == Read(a)

next(a) == Read(a)

is_vehicle_used(a) == Read(a)

\* The caller lets go of an Assignment.
DropAssignment(a) ==
    /\ CallerRuns
    /\ a \in assignments
    /\ assignments' = assignments \ {a}
    /\ UNCHANGED <<callerFns, transit_callbacks, inner, modelAlive, pc,
                   solves, calls, lastCall, ret>>
    /\ UNCHANGED <<first_wiring, max_flow, min_cost_flow, index_manager,
                   query>>

\* The RoutingModel is dropped: no Assignment can still borrow it; the
\* engine's model and every stored closure are freed.
DropModel ==
    /\ MutBorrow
    /\ modelAlive' = FALSE
    /\ transit_callbacks' = <<>>
    /\ inner' = RoutingModelNew(index_manager)
    /\ UNCHANGED <<callerFns, assignments, pc, solves, calls, lastCall,
                   ret>>
    /\ query' = NoQuery
    /\ UNCHANGED <<first_wiring, max_flow, min_cost_flow, index_manager>>

(***************************************************************************)
(* Build-phase operations forwarded to the engine.                         *)
(***************************************************************************)
\* A method that changes the engine's model through &self runs while
\* Assignments are held: each of them now describes a model that has been
\* modified since its solve.
Modified(held) == {[a EXCEPT !.modified = TRUE] : a \in held}

\* The (slack_max, capacity, fix_start_cumul_to_zero) a caller passes.
DimParams ==
    {[slack_max |-> I64(0), capacity |-> I64(3000), fix |-> TRUE],
     [slack_max |-> I64(30), capacity |-> <<1, 0>>, fix |-> FALSE]}

\* The engine's AddDimension as the wrapper documents it, with a later
\* dimension of the same name replacing the first.
AddDimension_overwrite(in, evaluator_index, slack_max, capacity, fix, name) ==
    [inner |-> [in EXCEPT !.dimensions =
                    [n \in (DOMAIN in.dimensions) \cup {name} |->
                        IF n = name
                        THEN [serial |-> Cardinality(DOMAIN in.dimensions) + 1,
                              evaluator |-> evaluator_index,
                              slack_max |-> AsInt64(slack_max),
                              capacity |-> AsInt64(capacity),
                              fix_start_cumul_to_zero |-> fix,
                              requested_fix |-> fix,
                              requested_slack_max |-> slack_max,
                              requested_capacity |-> capacity,
                              span_cost_coefficient |-> I64(0)]
                        ELSE in.dimensions[n]]],
     result |-> TRUE]

\* AddDimension with the bounds passed through a 32-bit type: the high
\* word of slack_max and of capacity is lost.
AddDimension_truncated(in, evaluator_index, slack_max, capacity, fix, name) ==
    IF name \in DOMAIN in.dimensions
    THEN [inner |-> in, result |-> FALSE]
    ELSE [inner |-> [in EXCEPT !.dimensions =
                        [n \in (DOMAIN in.dimensions) \cup {name} |->
                            IF n = name
                            THEN [serial |->
                                      Cardinality(DOMAIN in.dimensions) + 1,
                                  evaluator |-> evaluator_index,
                                  slack_max |-> <<0, Lo(slack_max)>>,
                                  capacity |-> <<0, Lo(capacity)>>,
                                  fix_start_cumul_to_zero |-> fix,
                                  requested_fix |-> fix,
                                  requested_slack_max |-> slack_max,
                                  requested_capacity |-> capacity,
                                  span_cost_coefficient |-> I64(0)]
                            ELSE in.dimensions[n]]],
          result |-> TRUE]

\* AddDimension with the fix_start_cumul_to_zero flag lost on the way to the
\* engine.
AddDimension_unfixed(in, evaluator_index, slack_max, capacity, fix, name) ==
    IF name \in DOMAIN in.dimensions
    THEN [inner |-> in, result |-> FALSE]
    ELSE [inner |-> [in EXCEPT !.dimensions =
                        [n \in (DOMAIN in.dimensions) \cup {name} |->
                            IF n = name
                            THEN [serial |->
                                      Cardinality(DOMAIN in.dimensions) + 1,
                                  evaluator |-> evaluator_index,
                                  slack_max |-> AsInt64(slack_max),
                                  capacity |-> AsInt64(capacity),
                                  fix_start_cumul_to_zero |-> FALSE,
                                  requested_fix |-> fix,
                                  requested_slack_max |-> slack_max,
                                  requested_capacity |-> capacity,
                                  span_cost_coefficient |-> I64(0)]
                            ELSE in.dimensions[n]]],
          result |-> TRUE]

\* inner->AddDimension(evaluator_index, slack_max, capacity,
\* fix_start_cumul_to_zero, name): "Returns false if a dimension with the
\* same name has already been created (and doesn't create the new
\* dimension)"; otherwise the dimension and its cumul, transit and slack
\* variables (identified by the dimension's serial) are created.  The
\* record keeps, beside what the engine was given, the flag and the bounds
\* as the caller passed them (requested_fix, requested_slack_max,
\* requested_capacity).
AddDimension(in, evaluator_index, slack_max, capacity, fix, name) ==
    IF name \in DOMAIN in.dimensions
    THEN [inner |-> in, result |-> FALSE]
    ELSE [inner |-> [in EXCEPT !.dimensions =
                        [n \in (DOMAIN in.dimensions) \cup {name} |->
                            IF n = name
                            THEN [serial |->
                                      Cardinality(DOMAIN in.dimensions) + 1,
                                  evaluator |-> evaluator_index,
                                  slack_max |-> AsInt64(slack_max),
                                  capacity |-> AsInt64(capacity),
                                  fix_start_cumul_to_zero |-> fix,
                                  requested_fix |-> fix,
                                  requested_slack_max |-> slack_max,
                                  requested_capacity |-> capacity,
                                  span_cost_coefficient |-> I64(0)]
                            ELSE in.dimensions[n]]],
          result |-> TRUE]

\* The evaluator index is one the engine handed out.
add_dimension(evaluator_index, slack_max, capacity, fix, name) ==
    /\ MutBorrow
    /\ calls < MaxCalls
    /\ evaluator_index \in DOMAIN inner.evaluators
    /\ LET r == AddDimension(inner, evaluator_index, slack_max, capacity, fix,
                             StdString(name, Len(name)))
       IN /\ inner' = r.inner
          /\ ret' = Ret("add_dimension", -1, r.result, name)
    /\ calls' = calls + 1
    /\ UNCHANGED <<callerFns, transit_callbacks, modelAlive, assignments, pc,
                   solves, lastCall>>
    /\ query' = NoQuery
    /\ UNCHANGED <<first_wiring, max_flow, min_cost_flow, index_manager>>

\* get_mutable_dimension(dimension_name) followed, when it returns Some, by
\* set_global_span_cost_coefficient(coefficient) on the dimension.
set_global_span_cost_coefficient(dimension_name, coefficient) ==
    /\ SharedBorrow
    /\ calls < MaxCalls
    /\ LET name == StdString(dimension_name, Len(dimension_name))
           found == name \in DOMAIN inner.dimensions
       IN /\ found =>
               inner.dimensions[name].span_cost_coefficient # coefficient
          /\ inner' = IF found
                      THEN [inner EXCEPT
                             !.dimensions[name].span_cost_coefficient =
                                 AsInt64(coefficient)]
                      ELSE inner
          /\ assignments' = IF found THEN Modified(assignments)
                          ELSE assignments
          /\ ret' = Ret("set_global_span_cost_coefficient", -1, found,
                        dimension_name)
    /\ calls' = calls + 1
    /\ UNCHANGED <<callerFns, transit_callbacks, modelAlive, pc, solves,
                   lastCall>>
    /\ query' = NoQuery
    /\ UNCHANGED <<first_wiring, max_flow, min_cost_flow, index_manager>>

\* inner->AddPickupAndDelivery(pickup, delivery): the engine is told the pair;
\* the wrapper checks neither index.
add_pickup_and_delivery(pickup, delivery) ==
    /\ SharedBorrow
    /\ calls < MaxCalls
    /\ inner' = [inner EXCEPT !.pickup_delivery_pairs =
                    @ \cup {<<AsInt64(pickup), AsInt64(delivery)>>}]
    /\ assignments' = Modified(assignments)
    /\ ret' = Ret("add_pickup_and_delivery", -1, TRUE, <<>>)
    /\ calls' = calls + 1
    /\ UNCHANGED <<callerFns, transit_callbacks, modelAlive, pc, solves,
                   lastCall>>
    /\ query' = NoQuery
    /\ UNCHANGED <<first_wiring, max_flow, min_cost_flow, index_manager>>

\* inner->SetArcCostEvaluatorOfAllVehicles(evaluator_index)
set_arc_cost_evaluator_of_all_vehicles(evaluator_index) ==
    /\ MutBorrow
    /\ calls < MaxCalls
    /\ evaluator_index \in DOMAIN inner.evaluators
    /\ inner' = [inner EXCEPT !.cost_evaluator = evaluator_index]
    /\ ret' = Ret("set_arc_cost_evaluator_of_all_vehicles", -1, TRUE, <<>>)
    /\ calls' = calls + 1
    /\ UNCHANGED <<callerFns, transit_callbacks, modelAlive, assignments, pc,
                   solves, lastCall>>
    /\ query' = NoQuery
    /\ UNCHANGED <<first_wiring, max_flow, min_cost_flow, index_manager>>

Next ==
    \/ \E o \in 1..MaxFns : DropCallback(o)
    \/ \E o \in 1..MaxFns : register_transit_callback(o)
    \/ SolveBegin
    \/ \E h \in Handles, from \in Indices, to \in Indices :
          InvokeTransitCallback(h, from, to)
    \/ SolveEnd
    \/ \E a \in assignments : value(a)
    \/ \E a \in assignments : next(a)
    \/ \E a \in assignments : is_vehicle_used(a)
    \/ \E a \in assignments : DropAssignment(a)
    \/ DropModel
    \/ \E h \in Handles, p \in DimParams, name \in DimNames :
          add_dimension(h, p.slack_max, p.capacity, p.fix, name)
    \/ \E name \in DimNames :
          set_global_span_cost_coefficient(name, I64(100))
    \/ \E pickup \in Indices, delivery \in Indices :
          add_pickup_and_delivery(pickup, delivery)
    \/ \E h \in Handles : set_arc_cost_evaluator_of_all_vehicles(h)

Spec == Init /\ [][Next]_vars

\* The model with, beside the calls above, the registrations made once the
\* engine has handed out every handle.
NextHandles ==
    \/ Next
    \/ \E o \in 1..MaxFns : register_transit_callback_exhausted(o)

SpecHandles == Init /\ [][NextHandles]_vars

(***************************************************************************)
(* Model inspection (constraint_solver/routing.rs, "Model inspection").    *)
(* Every accessor takes &self, forwards to a const method of the engine    *)
(* and returns its result; query records the call.                         *)
(***************************************************************************)
\* Option<T>
None == <<"None">>

Some(vehicle) == <<"Some", vehicle>>

\* inner->Start(vehicle): "the variable index of the starting node of a
\* vehicle route"
Start(in, vehicle) == GetStartIndex(in.manager, vehicle)

\* inner->End(vehicle): "the variable index of the ending node of a vehicle
\* route"
End(in, vehicle) == GetEndIndex(in.manager, vehicle)

\* inner->IsStart(index): "true if 'index' represents the first node of a
\* route"
IsStart(in, index) == \E v \in Vehicles : Start(in, v) = index

\* inner->IsEnd(index): "true if 'index' represents the last node of a
\* route"
IsEnd(in, index) == \E v \in Vehicles : End(in, v) = index

\* inner->VehicleIndex(index), for an index of the model: "the vehicle of
\* the given start/end index", the engine's -1 otherwise.
VehicleIndex(in, index) ==
    IF IsStart(in, index) \/ IsEnd(in, index)
    THEN CHOOSE v \in Vehicles : Start(in, v) = index \/ End(in, v) = index
    ELSE -1

\* A conversion that hands the engine's answer on as it is.
OptionOfVehicle_raw(vehicle) == Some(vehicle)

\* if vehicle == -1 { None } else { Some(vehicle) }
OptionOfVehicle(vehicle) == IF vehicle = -1 THEN None ELSE Some(vehicle)

\* inner->GetArcCostForVehicle(from_index, to_index, vehicle): 0 if
\* vehicle < 0, and else the cost evaluator's value, which the engine gets
\* by calling the registered callback.  The model gives 0 while no cost
\* evaluator is set.
GetArcCostForVehicle(in, vec, fns, from_index, to_index, vehicle) ==
    IF vehicle < 0 \/ in.cost_evaluator = -1
    THEN {I64(0)}
    ELSE CallThrough(vec, fns, in.evaluators[in.cost_evaluator],
                     AsInt64(from_index), AsInt64(to_index)).results

\* inner->CostsAreHomogeneousAcrossVehicles(): the one cost setter of the
\* wrapper sets the evaluator "whatever the route or vehicle".
CostsAreHomogeneousAcrossVehicles(in) == TRUE

\* A call of an accessor of the model that returns one of `results`.
Accessor(op, args, results) ==
    /\ SharedBorrow
    /\ \E r \in results : query' = Query(op, args, r)
    /\ UNCHANGED <<callerFns, transit_callbacks, inner, modelAlive,
                   assignments, pc, solves, calls, lastCall, ret,
                   first_wiring, max_flow, min_cost_flow, index_manager>>

start(vehicle) == Accessor("start", <<vehicle>>, {Start(inner, vehicle)})

end(vehicle) == Accessor("end", <<vehicle>>, {End(inner, vehicle)})

is_start(index) == Accessor("is_start", <<index>>, {IsStart(inner, index)})

is_end(index) == Accessor("is_end", <<index>>, {IsEnd(inner, index)})

vehicle_index(index) ==
    Accessor("vehicle_index", <<index>>,
             {OptionOfVehicle(VehicleIndex(inner, index))})

get_arc_cost_for_vehicle(from_index, to_index, vehicle) ==
    Accessor("get_arc_cost_for_vehicle", <<from_index, to_index, vehicle>>,
             GetArcCostForVehicle(inner, transit_callbacks, callerFns,
                                  from_index, to_index, vehicle))

costs_are_homogeneous_across_vehicles ==
    Accessor("costs_are_homogeneous_across_vehicles", <<>>,
             {CostsAreHomogeneousAcrossVehicles(inner)})

\* A call of a method of the manager, which the model borrows.
ManagerMethod(op, args, result) ==
    /\ pc = "caller"
    /\ query' = Query(op, args, result)
    /\ UNCHANGED <<callerFns, transit_callbacks, inner, modelAlive,
                   assignments, pc, solves, calls, lastCall, ret,
                   first_wiring, max_flow, min_cost_flow, index_manager>>

get_start_index(vehicle) ==
    ManagerMethod("get_start_index", <<vehicle>>,
                  GetStartIndex(index_manager, vehicle))

get_end_index(vehicle) ==
    ManagerMethod("get_end_index", <<vehicle>>,
                  GetEndIndex(index_manager, vehicle))

index_to_node(index) ==
    ManagerMethod("index_to_node", <<index>>,
                  IndexToNode(index_manager, index))

\* The vehicle arguments of get_arc_cost_for_vehicle: the vehicles and -1.
CostVehicles == Vehicles \cup {-1}

\* The inspection of a model, between the calls that decide what the cost
\* accessors return.
NextAccessors ==
    \/ \E o \in 1..MaxFns : DropCallback(o)
    \/ \E o \in 1..MaxFns : register_transit_callback(o)
    \/ \E h \in Handles : set_arc_cost_evaluator_of_all_vehicles(h)
    \/ \E v \in Vehicles : start(v)
    \/ \E v \in Vehicles : end(v)
    \/ \E index \in ManagerIndices(index_manager) : is_start(index)
    \/ \E index \in ManagerIndices(index_manager) : is_end(index)
    \/ \E index \in ManagerIndices(index_manager) : vehicle_index(index)
    \/ \E from \in Indices, to \in Indices, v \in CostVehicles :
          get_arc_cost_for_vehicle(from, to, v)
    \/ costs_are_homogeneous_across_vehicles

SpecAccessors == Init /\ [][NextAccessors]_vars

\* The indices of the model of each manager, read through the model and
\* through the manager.
NextManagers ==
    \/ \E v \in Vehicles : start(v)
    \/ \E v \in Vehicles : end(v)
    \/ \E index \in ManagerIndices(index_manager) : is_start(index)
    \/ \E index \in ManagerIndices(index_manager) : is_end(index)
    \/ \E index \in ManagerIndices(index_manager) : vehicle_index(index)
    \/ \E v \in Vehicles : get_start_index(v)
    \/ \E v \in Vehicles : get_end_index(v)
    \/ \E index \in ManagerIndices(index_manager) : index_to_node(index)

SpecManagers == InitManagers /\ [][NextManagers]_vars

(***************************************************************************)
(* MaxFlow (graph/max_flow.rs).  The wrapper forwards every call to the    *)
(* linked solver; the record max_flow holds what the solver was given      *)
(* (capacity), what the caller asked for (requested, a history variable),  *)
(* the flow of the last successful Solve (optimal_flow), whether a         *)
(* MaxFlowOutput borrowing the solver is held (output), and the last       *)
(* value get_optimal_flow returned (ret).  Capacities are far below the    *)
(* range of FlowQuantity, so no cut overflows and the u64 of the wrapper   *)
(* and the FlowQuantity of the solver denote the same number.              *)
(***************************************************************************)

\* The capacities a caller gives an arc: that of the graph above, or 5.
CapacityChoices(arc) == {ArcCapacity[arc], 5}

\* What the solver may hold for an arc no call has set.
UnsetCapacities == {0, 10}

RECURSIVE SumOver(_, _)
SumOver(f, S) ==
    IF S = {} THEN 0
    ELSE LET a == CHOOSE x \in S : TRUE IN f[a] + SumOver(f, S \ {a})

Min(S) == CHOOSE m \in S : \A n \in S : m <= n

\* The arcs leaving a set of nodes.
CutArcs(S) == {a \in ArcIndices : Arcs[a][1] \in S /\ Arcs[a][2] \notin S}

\* The sets of nodes that hold the source and not the target.
Cuts == {S \in SUBSET Nodes : Source \in S /\ Target \notin S}

\* "finds the maximum flow from the given source to the given sink": the
\* value of a maximum flow is the capacity of a minimum cut.
MaxFlowValue(capacity) == Min({SumOver(capacity, CutArcs(S)) : S \in Cuts})

\* A SetArcCapacity that gives the first arc the capacity 7 whatever the
\* caller asked for.
SetArcCapacity_ignored(mf, arc, capacity) ==
    [mf EXCEPT !.capacity[arc] = IF arc = 1 THEN 7 ELSE capacity,
               !.requested[arc] = capacity,
               !.status = "NotSolved"]

\* inner->SetArcCapacity(arc, capacity); the status is NotSolved once the
\* "data were edited".
SetArcCapacity(mf, arc, capacity) ==
    [mf EXCEPT !.capacity[arc] = capacity, !.requested[arc] = capacity,
               !.status = "NotSolved"]

\* inner->SetArcFlow(arc, flow)
SetArcFlow(mf, arc, flow) ==
    [mf EXCEPT !.flow[arc] = flow, !.status = "NotSolved"]

\* The capacities the solver works on when arcs no call has set hold c.
EngineCapacity(mf, c) ==
    [a \in ArcIndices |->
        IF mf.capacity[a] = Unset THEN c ELSE mf.capacity[a]]

\* The status a Solve() that returned false can leave.
FailedStatus == {"BadInput", "BadResult"}

\* inner->Solve(): whether a maximum flow was solved, and the solver after:
\* Optimal when "solve() was called and found an optimal solution".
Solve(mf) ==
    {[solved |-> FALSE, inner |-> [mf EXCEPT !.status = st]] :
        st \in FailedStatus} \cup
    {[solved |-> TRUE,
      inner |-> [mf EXCEPT !.optimal_flow =
                               MaxFlowValue(EngineCapacity(mf, c)),
                           !.status = "Optimal"]] :
        c \in UnsetCapacities}

\* inner->GetOptimalFlow()
GetOptimalFlow(mf) == mf.optimal_flow

\* MaxFlow::set_arc_capacity(&mut self, arc, capacity): the exclusive
\* borrow is refused while a MaxFlowOutput borrows the solver.
\* A set_arc_capacity that could be called while a MaxFlowOutput is held.
MaxFlow_set_arc_capacity_unguarded(arc, capacity) ==
    /\ max_flow' = SetArcCapacity(max_flow, arc, capacity)
    /\ UNCHANGED routingVars
    /\ UNCHANGED min_cost_flow

MaxFlow_set_arc_capacity(arc, capacity) ==
    /\ ~max_flow.output
    /\ max_flow' = SetArcCapacity(max_flow, arc, capacity)
    /\ UNCHANGED routingVars
    /\ UNCHANGED min_cost_flow

\* MaxFlow::solve(&mut self): Some(MaxFlowOutput) if Solve() returned true,
\* None otherwise.
MaxFlow_solve ==
    /\ ~max_flow.output
    /\ \E r \in Solve(max_flow) :
          max_flow' = [r.inner EXCEPT !.output = r.solved]
    /\ UNCHANGED routingVars
    /\ UNCHANGED min_cost_flow

\* MaxFlowOutput::get_optimal_flow(&self)
MaxFlowOutput_get_optimal_flow ==
    /\ max_flow.output
    /\ max_flow' = [max_flow EXCEPT !.ret = GetOptimalFlow(max_flow)]
    /\ UNCHANGED routingVars
    /\ UNCHANGED min_cost_flow

\* The MaxFlowOutput goes out of scope, which ends its borrow.
DropMaxFlowOutput ==
    /\ max_flow.output
    /\ max_flow' = [max_flow EXCEPT !.output = FALSE, !.ret = Unset,
                                    !.status_read = "none"]
    /\ UNCHANGED routingVars
    /\ UNCHANGED min_cost_flow

NextMaxFlow ==
    \/ \E arc \in ArcIndices : \E capacity \in CapacityChoices(arc) :
          MaxFlow_set_arc_capacity(arc, capacity)
    \/ MaxFlow_solve
    \/ MaxFlowOutput_get_optimal_flow
    \/ DropMaxFlowOutput

SpecMaxFlow == Init /\ [][NextMaxFlow]_vars

(***************************************************************************)
(* MinCostFlow (graph/min_cost_flow.rs), as far as arc unit costs go: the  *)
(* record min_cost_flow holds the unit costs the solver was given          *)
(* (unit_cost), those the caller asked for (requested, a history           *)
(* variable), whether a MinCostFlowOutput borrowing the solver is held     *)
(* (output), and the last <<arc, value>> that unit_cost returned (ret).    *)
(* Supplies and capacities decide only whether a flow is found, which the  *)
(* model leaves open.                                                      *)
(***************************************************************************)

\* The unit cost of each arc.
ArcUnitCost == <<4, 4, 2, 2, 6, 1, 3, 2, 3>>

\* The unit costs a caller gives an arc: that above, or 7.
UnitCostChoices(arc) == {ArcUnitCost[arc], 7}

\* A SetArcUnitCost that stores twice the cost it was given.
SetArcUnitCost_doubled(mcf, arc, unit_cost) ==
    [mcf EXCEPT !.unit_cost[arc] = 2 * unit_cost,
                !.requested[arc] = unit_cost,
                !.status = "NotSolved"]

\* inner->SetArcUnitCost(arc, unit_cost)
SetArcUnitCost(mcf, arc, unit_cost) ==
    [mcf EXCEPT !.unit_cost[arc] = unit_cost, !.requested[arc] = unit_cost,
                !.status = "NotSolved"]

\* inner->SetNodeSupply(node, supply)
SetNodeSupply(mcf, node, supply) ==
    [mcf EXCEPT !.supply[node] = supply, !.status = "NotSolved"]

\* inner->SetArcCapacity(arc, new_capacity) of the min-cost flow solver.
SetMinCostFlowArcCapacity(mcf, arc, new_capacity) ==
    [mcf EXCEPT !.capacity[arc] = new_capacity, !.status = "NotSolved"]

\* inner->UnitCost(arc): "the unscaled cost for the given arc".
UnitCost(mcf, arc) == mcf.unit_cost[arc]

\* inner->Solve() of the min-cost flow solver: whether a flow could be
\* found; the unscaled costs are those set.
SolveMinCostFlow(mcf) ==
    {[solved |-> FALSE, inner |-> [mcf EXCEPT !.status = st]] :
        st \in {"Infeasible", "BadCostRange"}} \cup
    {[solved |-> TRUE, inner |-> [mcf EXCEPT !.status = "Optimal"]]}

\* MinCostFlow::set_arc_unit_cost(&mut self, arc, unit_cost): the exclusive
\* borrow is refused while a MinCostFlowOutput borrows the solver.
MinCostFlow_set_arc_unit_cost(arc, unit_cost) ==
    /\ ~min_cost_flow.output
    /\ min_cost_flow' = SetArcUnitCost(min_cost_flow, arc, unit_cost)
    /\ UNCHANGED routingVars
    /\ UNCHANGED max_flow

\* MinCostFlow::solve(&mut self): Some(MinCostFlowOutput) if Solve()
\* returned true, None otherwise.
MinCostFlow_solve ==
    /\ ~min_cost_flow.output
    /\ \E r \in SolveMinCostFlow(min_cost_flow) :
          min_cost_flow' = [r.inner EXCEPT !.output = r.solved]
    /\ UNCHANGED routingVars
    /\ UNCHANGED max_flow

\* MinCostFlowOutput::unit_cost(&self, arc)
MinCostFlowOutput_unit_cost(arc) ==
    /\ min_cost_flow.output
    /\ min_cost_flow' =
          [min_cost_flow EXCEPT !.ret = <<arc, UnitCost(min_cost_flow, arc)>>]
    /\ UNCHANGED routingVars
    /\ UNCHANGED max_flow

\* The MinCostFlowOutput goes out of scope, which ends its borrow.
DropMinCostFlowOutput ==
    /\ min_cost_flow.output
    /\ min_cost_flow' = [min_cost_flow EXCEPT !.output = FALSE,
                                              !.ret = <<>>,
                                              !.status_read = "none"]
    /\ UNCHANGED routingVars
    /\ UNCHANGED max_flow

NextMinCostFlow ==
    \/ \E arc \in ArcIndices : \E unit_cost \in UnitCostChoices(arc) :
          MinCostFlow_set_arc_unit_cost(arc, unit_cost)
    \/ MinCostFlow_solve
    \/ \E arc \in ArcIndices : MinCostFlowOutput_unit_cost(arc)
    \/ DropMinCostFlowOutput

SpecMinCostFlow == Init /\ [][NextMinCostFlow]_vars

(***************************************************************************)
(* Both flow solvers side by side, with the other calls that edit their    *)
(* data and with status() read through an output.  Only the first and the  *)
(* fifth arc are set here.                                                 *)
(***************************************************************************)
FlowArcs == {1, 5}

\* inner->status() of either solver.
Status(solver) == solver.status

\* MaxFlow::set_arc_flow(&mut self, arc, flow)
MaxFlow_set_arc_flow(arc, flow) ==
    /\ ~max_flow.output
    /\ max_flow' = SetArcFlow(max_flow, arc, flow)
    /\ UNCHANGED routingVars
    /\ UNCHANGED min_cost_flow

\* MaxFlowOutput::status(&self)
MaxFlowOutput_status ==
    /\ max_flow.output
    /\ max_flow' = [max_flow EXCEPT !.status_read = Status(max_flow)]
    /\ UNCHANGED routingVars
    /\ UNCHANGED min_cost_flow

\* MinCostFlow::set_node_supply(&mut self, node, supply)
MinCostFlow_set_node_supply(node, supply) ==
    /\ ~min_cost_flow.output
    /\ min_cost_flow' = SetNodeSupply(min_cost_flow, node, supply)
    /\ UNCHANGED routingVars
    /\ UNCHANGED max_flow

\* MinCostFlow::set_arc_capacity(&mut self, arc, new_capacity)
MinCostFlow_set_arc_capacity(arc, new_capacity) ==
    /\ ~min_cost_flow.output
    /\ min_cost_flow' =
          SetMinCostFlowArcCapacity(min_cost_flow, arc, new_capacity)
    /\ UNCHANGED routingVars
    /\ UNCHANGED max_flow

\* MinCostFlowOutput::status(&self)
MinCostFlowOutput_status ==
    /\ min_cost_flow.output
    /\ min_cost_flow' =
          [min_cost_flow EXCEPT !.status_read = Status(min_cost_flow)]
    /\ UNCHANGED routingVars
    /\ UNCHANGED max_flow

NextFlows ==
    \/ \E arc \in FlowArcs : \E capacity \in CapacityChoices(arc) :
          MaxFlow_set_arc_capacity(arc, capacity)
    \/ \E arc \in FlowArcs : MaxFlow_set_arc_flow(arc, 5)
    \/ MaxFlow_solve
    \/ MaxFlowOutput_get_optimal_flow
    \/ MaxFlowOutput_status
    \/ DropMaxFlowOutput
    \/ \E arc \in FlowArcs : MinCostFlow_set_arc_unit_cost(arc, ArcUnitCost[arc])
    \/ MinCostFlow_set_arc_capacity(1, 15)
    \/ MinCostFlow_set_node_supply(Source, 20)
    \/ MinCostFlow_solve
    \/ \E arc \in FlowArcs : MinCostFlowOutput_unit_cost(arc)
    \/ MinCostFlowOutput_status
    \/ DropMinCostFlowOutput

SpecFlows == Init /\ [][NextFlows]_vars

(***************************************************************************)
(* Properties.                                                             *)
(***************************************************************************)
\* The function registered under handle h: the one the function object
\* computed that was passed to the registration which returned h.
RegisteredFn(h) ==
    LET closure == CHOOSE c \in ClosuresAt(transit_callbacks,
                                           inner.evaluators[h]) : TRUE
    IN callerFns[closure.userdata].fn

\* C4: every invocation the engine makes during a solve reaches a function
\* object that still exists, also when the caller's function object went
\* out of scope after the registration.
C4_InvocationReachesLiveFunction == lastCall.made => lastCall.live

\* C6: the value the engine obtains by invoking handle h with (from, to) is
\* f(from, to) for the function f registered under h, arguments in that
\* order and all 64 bits kept.
C6_InvocationEqualsFunction ==
    lastCall.made =>
        lastCall.result =
            Apply(RegisteredFn(lastCall.handle), lastCall.from, lastCall.to)

\* The same, for the invocations that reach a function object that still
\* exists.
C6_InvocationEqualsLiveFunction ==
    (lastCall.made /\ lastCall.live) =>
        lastCall.result =
            Apply(RegisteredFn(lastCall.handle), lastCall.from, lastCall.to)

\* A step that is a call of `op` on the model.
CallOf(op) == calls' = calls + 1 /\ ret'.op = op

C8_SingleAssignment == Cardinality(assignments) <= 1

\* C9: every Assignment that can be read belongs to a model that has not
\* been modified since the solve that produced the Assignment.
C9_ReadableAssignmentUnmodified == \A a \in assignments : ~a.modified

\* C10: add_dimension with a name the model already has returns false and
\* changes nothing: no dimension is added, the first dimension and the rest
\* of the model stay as they were, and the model can still be used.
C10_DuplicateDimensionRejected ==
    [][(CallOf("add_dimension") /\
        StdString(ret'.name, Len(ret'.name)) \in DOMAIN inner.dimensions) =>
        /\ ~ret'.ok
        /\ inner' = inner
        /\ transit_callbacks' = transit_callbacks
        /\ callerFns' = callerFns
        /\ assignments' = assignments
        /\ modelAlive' /\ pc' = "caller"]_vars

\* add_dimension was called with the name of an existing dimension.
C10_Witness ==
    /\ ret.op = "add_dimension"
    /\ ~ret.ok
    /\ StdString(ret.name, Len(ret.name)) \in DOMAIN inner.dimensions
    /\ modelAlive

\* C15: when the search finds no solution, the Assignment returned still
\* lets the caller learn the outcome without reading through the missing
\* solution: some method of it does not dereference the wrapped pointer.
C15_NoSolutionIsCheckable ==
    \A a \in assignments :
        a.inner = "nullptr" => \E m \in AssignmentMethods : ~Dereferences(m)

\* C16: in every solved Assignment, a dimension added with
\* fix_start_cumul_to_zero = true has cumul 0 at the start of every vehicle.
C16_StartCumulFixedToZero ==
    \A a \in assignments :
        a.inner = "solution" =>
            \A n \in DOMAIN a.start_cumul :
                (n \in DOMAIN inner.dimensions
                    /\ inner.dimensions[n].requested_fix)
                => \A v \in Vehicles : a.start_cumul[n][v] = I64(0)

C16_Witness ==
    \E a \in assignments :
        /\ a.inner = "solution"
        /\ \E n \in DOMAIN a.start_cumul :
              /\ n \in DOMAIN inner.dimensions
              /\ inner.dimensions[n].requested_fix
              /\ \A v \in Vehicles : a.start_cumul[n][v] = I64(0)

\* The calls that wire the engine's model.
BuildOps == {"register_transit_callback", "add_dimension",
             "set_global_span_cost_coefficient", "add_pickup_and_delivery",
             "set_arc_cost_evaluator_of_all_vehicles"}

C18_OptimalFlowIsMaximum ==
    (/\ max_flow.output
     /\ max_flow.ret # Unset
     /\ \A a \in ArcIndices : max_flow.requested[a] # Unset)
    => /\ max_flow.ret = MaxFlowValue(max_flow.requested)
       /\ max_flow.requested = ArcCapacity => max_flow.ret = 60

C18_Witness ==
    /\ max_flow.output
    /\ max_flow.requested = ArcCapacity
    /\ max_flow.ret = 60

\* C19: whenever unit_cost(arc) has returned on a MinCostFlowOutput, that is
\* after a successful solve, for an arc whose unit cost was set with
\* set_arc_unit_cost, the value returned is the unit cost last set for that
\* arc; and while the output is held every arc still has the unit cost last
\* set for it, so solving has changed none.
C19_UnitCostIsLastSet ==
    min_cost_flow.output =>
       /\ \A a \in ArcIndices :
             min_cost_flow.requested[a] # Unset =>
                UnitCost(min_cost_flow, a) = min_cost_flow.requested[a]
       /\ (/\ min_cost_flow.ret # <<>>
           /\ min_cost_flow.requested[min_cost_flow.ret[1]] # Unset)
          => min_cost_flow.ret[2] =
                min_cost_flow.requested[min_cost_flow.ret[1]]

C19_Witness ==
    /\ min_cost_flow.output
    /\ min_cost_flow.requested = ArcUnitCost
    /\ min_cost_flow.ret = <<5, 6>>

\* C21: every register_transit_callback call either returns a handle in the
\* non-negative range that no earlier registration was given, or reports a
\* failure and leaves the model as it was; it never returns a negative or
\* wrapped-around handle.
C21_HandleRangeEnforced ==
    [][CallOf("register_transit_callback") =>
        \/ /\ ret'.ok
           /\ ret'.handle \in Handles
           /\ ret'.handle \notin DOMAIN inner.evaluators
        \/ /\ ~ret'.ok
           /\ inner' = inner
           /\ transit_callbacks' = transit_callbacks]_vars

\* C23: a register_transit_callback call leaves every handle handed out
\* before it as it was: the engine still holds the same code address for
\* it, and that address is still the code of the one stored closure it
\* belonged to, with the same function object behind it, wherever the push
\* has moved the closures of the vector.
C23_RegistrationKeepsEarlierCode ==
    [][CallOf("register_transit_callback") =>
        \A h \in DOMAIN inner.evaluators :
            /\ h \in DOMAIN inner'.evaluators
            /\ inner'.evaluators[h] = inner.evaluators[h]
            /\ Cardinality(ClosuresAt(transit_callbacks',
                                      inner'.evaluators[h])) = 1
            /\ ClosuresAt(transit_callbacks', inner'.evaluators[h]) =
                   ClosuresAt(transit_callbacks, inner.evaluators[h])]_vars

\* Two registrations have been made, so the second push found a closure
\* in the vector, and both handles are the engine's.
C23_Witness ==
    /\ ret.op = "register_transit_callback"
    /\ Len(transit_callbacks) >= 2
    /\ Cardinality(DOMAIN inner.evaluators) >= 2
    /\ \A h \in DOMAIN inner.evaluators :
          Cardinality(ClosuresAt(transit_callbacks, inner.evaluators[h])) = 1

C30_OutputReflectsLastSolve ==
    /\ max_flow.output =>
          /\ Status(max_flow) = "Optimal"
          /\ max_flow.status_read \in {"none", "Optimal"}
          /\ max_flow.ret \in {Unset, GetOptimalFlow(max_flow)}
    /\ Status(max_flow) \in FailedStatus => ~max_flow.output
    /\ min_cost_flow.output =>
          /\ Status(min_cost_flow) = "Optimal"
          /\ min_cost_flow.status_read \in {"none", "Optimal"}
    /\ Status(min_cost_flow) \in {"Infeasible", "BadCostRange"} =>
          ~min_cost_flow.output

\* Both outputs are held, status() was read through each, after data of
\* each solver had been set.
C30_Witness ==
    /\ max_flow.output
    /\ max_flow.status_read = "Optimal"
    /\ max_flow.capacity[1] # Unset
    /\ min_cost_flow.output
    /\ min_cost_flow.status_read = "Optimal"
    /\ min_cost_flow.supply[Source] = 20

(***************************************************************************)
(* The index manager and the inspection of the model.                      *)
(***************************************************************************)
\* C25: index_to_node gives every index of 0 .. num_indices - 1 a node of
\* 0 .. num_nodes - 1; num_indices is twice num_vehicles plus the number of
\* nodes that are neither a start nor an end, which with one depot for all
\* vehicles is num_nodes - 1 + 2 * num_vehicles; and every start and end
\* index lies in 0 .. num_indices - 1.
C25_IndicesCoverNodes ==
    LET m == index_manager
    IN  /\ num_indices(m) =
              2 * num_vehicles(m)
                  + Cardinality(NonStartOrEndNodes(num_nodes(m), m.plan))
        /\ (\E d \in NodeIndices(NumNodes) : m.plan = Depot(d)) =>
              num_indices(m) = num_nodes(m) - 1 + 2 * num_vehicles(m)
        /\ DOMAIN m.index_to_node = 1..num_indices(m)
        /\ \A index \in ManagerIndices(m) :
              IndexToNode(m, index) \in NodeIndices(num_nodes(m))
        /\ \A v \in Vehicles :
              /\ GetStartIndex(m, v) \in ManagerIndices(m)
              /\ GetEndIndex(m, v) \in ManagerIndices(m)
        /\ query.op = "index_to_node" =>
              query.result \in NodeIndices(num_nodes(m))
        /\ query.op \in {"get_start_index", "get_end_index", "start", "end"} =>
              query.result \in ManagerIndices(m)

\* index_to_node was called with the last index of a manager of one depot.
C25_Witness ==
    /\ index_manager.plan = Depot(0)
    /\ query.op = "index_to_node"
    /\ query.args = <<I64(num_indices(index_manager) - 1)>>
    /\ query.result \in NodeIndices(NumNodes)

\* C26: vehicle_index(index) is Some(v), with v a vehicle, exactly when
\* index is the start or the end index of vehicle v, and None for every
\* other index; it is never Some(-1).
C26_VehicleIndexOfStartOrEnd ==
    query.op = "vehicle_index" =>
        LET index == query.args[1]
            ofVehicle(v) == \/ index = GetStartIndex(index_manager, v)
                            \/ index = GetEndIndex(index_manager, v)
        IN  /\ \A v \in Vehicles : query.result = Some(v) <=> ofVehicle(v)
            /\ (\A v \in Vehicles : ~ofVehicle(v)) => query.result = None
            /\ query.result \in {None} \cup {Some(v) : v \in Vehicles}
            /\ query.result # Some(-1)

\* vehicle_index was called with an index no vehicle starts or ends at.
C26_Witness ==
    /\ query.op = "vehicle_index"
    /\ query.result = None
    /\ \A v \in Vehicles : /\ query.args[1] # GetStartIndex(index_manager, v)
                           /\ query.args[1] # GetEndIndex(index_manager, v)

EvaluatorCost(from_index, to_index, vehicle) ==
    IF vehicle < 0
    THEN I64(0)
    ELSE Apply(RegisteredFn(inner.cost_evaluator), from_index, to_index)

\* C28: once set_arc_cost_evaluator_of_all_vehicles has been called, however
\* often, get_arc_cost_for_vehicle(from, to, v) is the value at (from, to)
\* of the callback of the last call for every vehicle v >= 0, and 0 for
\* v < 0, and costs_are_homogeneous_across_vehicles is true.
C28_ArcCostIsLastEvaluator ==
    inner.cost_evaluator # -1 =>
        /\ query.op = "get_arc_cost_for_vehicle" =>
              query.result =
                  EvaluatorCost(query.args[1], query.args[2], query.args[3])
        /\ query.op = "costs_are_homogeneous_across_vehicles" =>
              query.result = TRUE

\* The same, while every function object of the application still exists.
C28_ArcCostIsLastLiveEvaluator ==
    (\A o \in 1..MaxFns : callerFns[o].alive) => C28_ArcCostIsLastEvaluator

\* An accessor call, which is no stuttering step: it records a query.
AccessorCall ==
    /\ query'.op # "none"
    /\ \/ query'.op # query.op
       \/ query'.args # query.args
       \/ query'.result # query.result

\* C22: an accessor of the model called twice with the same arguments, with
\* no call that changes the model in between, returns the same result both
\* times, and an accessor call changes nothing of the model.
C22_AccessorsAreIdempotent ==
    [][/\ (query.op # "none" /\ query'.op = query.op
              /\ query'.args = query.args) => query'.result = query.result
       /\ AccessorCall =>
              UNCHANGED <<transit_callbacks, inner, modelAlive, assignments,
                          index_manager, first_wiring>>]_vars

\* The same, while every function object of the application still exists.
C22_AccessorsAreIdempotentWhileLive ==
    [][(\A o \in 1..MaxFns : callerFns'[o].alive) =>
          /\ (query.op # "none" /\ query'.op = query.op
                 /\ query'.args = query.args) => query'.result = query.result
          /\ AccessorCall =>
                 UNCHANGED <<transit_callbacks, inner, modelAlive,
                             assignments, index_manager, first_wiring>>]_vars

====
